---- MODULE Spec2Model ----
(***************************************************************************)
(* uni-git: the retry engine (withRetry), the three provider error         *)
(* mappers, the pagination loops of the three provider adapters and the    *)
(* unified factory, as one state machine.                                  *)
(*                                                                         *)
(* One step of the machine is one synchronous run of JavaScript between    *)
(* two awaits: the code between awaits cannot be interleaved, so it is one *)
(* action.  The vendor SDKs (Octokit, Gitbeaker, bitbucket) and the        *)
(* platform behind them are the environment: a vendor call either returns  *)
(* the page the platform holds or throws one of VendorErrors.              *)
(***************************************************************************)
EXTENDS Integers, Sequences, FiniteSets, TLC

VARIABLES
    fac,          \* factory call in progress: mode, position, result
    provider,     \* the constructed adapter: its options
    memo,         \* the adapter's memoized vendor client handle
    builds,       \* vendor clients constructed by this adapter so far
    call,         \* the operation invoked on the adapter and its arguments
    platform,     \* what the platform holds for this call: number of items
    pc,           \* position of the invocation
    attempt,      \* stack of withRetry loop counters, innermost last
    maxRetries,   \* the retry policy's maxRetries of the running withRetry
    acc,          \* the accumulator of the running body (repos/branches/...)
    page,         \* the page counter of the running body
    err,          \* the error in flight (rejection of the running body)
    vendorErr,    \* the last error thrown by a vendor call of this invocation
    execs,        \* bodies started by the outermost withRetry
    innerExecs,   \* bodies started by a delegated (nested) withRetry
    vendorCalls,  \* vendor (network) calls issued by this invocation
    fetches,      \* page fetches issued by the current body execution
    waits,        \* backoff sleeps completed by this invocation
    fails,        \* body executions (of any withRetry) that threw
    warned,       \* console.warn was called during this invocation
    result,       \* settlement of the invocation: status, value, error
    inv,          \* invocations running concurrently on the adapter
    backoff       \* the retry policy's delay options and the wait in progress

vars == <<fac, provider, memo, builds, call, platform, pc, attempt, maxRetries,
          acc, page, err, vendorErr, execs, innerExecs, vendorCalls, fetches,
          waits, fails, warned, result, inv, backoff>>

-----------------------------------------------------------------------------
(* Bounds of the model *)

MaxTotal == 4        \* the platform holds 0..MaxTotal items (and BigTotal)
MaxCap == 3          \* maxItems arguments 0..MaxCap (and BigCap, undefined)
MaxPerPage == 2      \* perPage arguments 0..MaxPerPage (and PlatformMax, over)
MaxPolicyRetries == 3 \* maxRetries of a caller-supplied policy -1..this

(* Program constants *)

DefaultMaxRetries == 3
DefaultBaseDelayMs == 1000
DefaultMaxDelayMs == 10000
GitHubDefaultPerPage == 100
GitLabDefaultPerPage == 100
BitbucketDefaultPerPage == 50
PlatformMax == 100

(* The scenario of the specification: pages of 100/100/37, maxItems 150 *)
BigTotal == 237
BigCap == 150

(* Encodings of JavaScript's undefined and Infinity, and of error fields:  *)
(* Absent: the property is not on the object; NoStatus: the property is    *)
(* an object that carries no status.                                       *)
Undefined == 0 - 1
Infinity == 0 - 2
Absent == 0 - 1
NoStatus == 0 - 2

Min(a, b) == IF a <= b THEN a ELSE b

-----------------------------------------------------------------------------
(* Errors.  cls is the class of the error object: "Raw" is anything that   *)
(* is not a ProviderError (a vendor exception or a plain Error); the five  *)
(* domain classes are the subclasses of ProviderError.  msg abstracts the  *)
(* message text to the pattern it carries.                                 *)

DomainKinds == {"NotFound", "Auth", "RateLimit", "Network", "Configuration"}

Statuses == {400, 401, 403, 404, 429, 500, 503}

NoError == [cls |-> "None", isErr |-> FALSE, status |-> Absent,
            resp |-> Absent, cause |-> Absent, msg |-> "none"]

\* `throw lastError` with lastError never assigned
UndefinedError == [cls |-> "Undefined", isErr |-> FALSE, status |-> Absent,
                   resp |-> Absent, cause |-> Absent, msg |-> "none"]

\* new Error(message)
PlainError(m) == [cls |-> "Raw", isErr |-> TRUE, status |-> Absent,
                  resp |-> Absent, cause |-> Absent, msg |-> m]

\* what error.cause.status reads when error.cause is e
CauseOf(e) == IF e.cls \in {"None", "Undefined"} THEN Absent
              ELSE IF e.status # Absent THEN e.status ELSE NoStatus

\* new <Kind>Error(message, cause): ProviderError sets message and cause only
ProviderError(kind, m, e) ==
    [cls |-> kind, isErr |-> TRUE, status |-> Absent, resp |-> Absent,
     cause |-> CauseOf(e), msg |-> m]

\* new RateLimitError(resetAt, cause): the message is always
\* "Rate limit exceeded"
RateLimitError(e) == ProviderError("RateLimit", "Rate limit", e)

\* errors a vendor SDK call can throw: the status directly on the error,
\* under error.response, under error.cause, or only a message
VendorErrors ==
    { [cls |-> "Raw", isErr |-> TRUE, status |-> s, resp |-> Absent,
       cause |-> Absent, msg |-> "none"] : s \in Statuses }
    \cup
    { [cls |-> "Raw", isErr |-> TRUE, status |-> Absent, resp |-> r,
       cause |-> Absent, msg |-> "none"] : r \in {404, NoStatus} }
    \cup
    { [cls |-> "Raw", isErr |-> TRUE, status |-> Absent, resp |-> Absent,
       cause |-> c, msg |-> "none"] : c \in {401, 404, NoStatus} }
    \cup
    { [cls |-> "Raw", isErr |-> TRUE, status |-> Absent, resp |-> Absent,
       cause |-> Absent, msg |-> m] : m \in {"none", "Not Found"} }

-----------------------------------------------------------------------------
(* Provider error mappers *)

\* the switch without its case 429
GitHubSwitch_No429(s, e) ==
    CASE s = 401 -> ProviderError("Auth", "fixed", e)
      [] s = 403 -> ProviderError("Auth", "fixed", e)
      [] s = 404 -> ProviderError("NotFound", "fixed", e)
      [] s \in {502, 503, 504} -> ProviderError("Network", "fixed", e)
      [] OTHER -> ProviderError("Network", e.msg, e)

\* the switch (status) of mapGitHubError
GitHubSwitch(s, e) ==
    CASE s = 401 -> ProviderError("Auth", "fixed", e)
      [] s = 403 -> ProviderError("Auth", "fixed", e)
      [] s = 404 -> ProviderError("NotFound", "fixed", e)
      [] s = 429 -> RateLimitError(e)
      [] s \in {502, 503, 504} -> ProviderError("Network", "fixed", e)
      [] OTHER -> ProviderError("Network", e.msg, e)

mapGitHubError(e) ==
    IF e.cls # "Undefined" /\ e.status # Absent
    THEN GitHubSwitch(e.status, e)
    ELSE IF e.isErr
         THEN ProviderError("Network", e.msg, e)
         ELSE ProviderError("Network", "fixed", e)

\* the three switch statements of mapGitLabError map alike up to the text
\* of the Network message
GitLabSwitch(s, e) ==
    CASE s = 401 -> ProviderError("Auth", "fixed", e)
      [] s = 403 -> ProviderError("Auth", "fixed", e)
      [] s = 404 -> ProviderError("NotFound", "fixed", e)
      [] s = 429 -> RateLimitError(e)
      [] OTHER -> ProviderError("Network", "none", e)

\* the message-substring fallback of mapGitLabError
GitLabByMessage(e) ==
    CASE e.msg = "Unauthorized" -> ProviderError("Auth", "fixed", e)
      [] e.msg = "Not Found" -> ProviderError("NotFound", "fixed", e)
      [] e.msg = "Rate limit" -> RateLimitError(e)
      [] OTHER -> ProviderError("Network", e.msg, e)

mapGitLabError(e) ==
    IF e.cls # "Undefined" /\ e.cause \notin {Absent, NoStatus}
    THEN GitLabSwitch(e.cause, e)
    ELSE IF e.cls # "Undefined" /\ e.resp # Absent
    THEN GitLabSwitch(e.resp, e)
    ELSE IF e.cls # "Undefined" /\ e.status # Absent
    THEN GitLabSwitch(e.status, e)
    ELSE IF e.isErr
    THEN GitLabByMessage(e)
    ELSE ProviderError("Network", "fixed", e)

\* the two switch statements of mapBitbucketError
BitbucketSwitch(s, e) ==
    CASE s = 401 -> ProviderError("Auth", "fixed", e)
      [] s = 403 -> ProviderError("Auth", "fixed", e)
      [] s = 404 -> ProviderError("NotFound", "fixed", e)
      [] s = 429 -> RateLimitError(e)
      [] OTHER -> ProviderError("Network", "none", e)

\* the mapper letting an error without status through unwrapped
mapBitbucketError_Raw(e) ==
    IF e.cls # "Undefined" /\ e.status # Absent
    THEN BitbucketSwitch(e.status, e)
    ELSE IF e.cls # "Undefined" /\ e.resp # Absent
    THEN BitbucketSwitch(e.resp, e)
    ELSE e

mapBitbucketError(e) ==
    IF e.cls # "Undefined" /\ e.status # Absent
    THEN BitbucketSwitch(e.status, e)
    ELSE IF e.cls # "Undefined" /\ e.resp # Absent
    THEN BitbucketSwitch(e.resp, e)
    ELSE IF e.isErr
    THEN ProviderError("Network", e.msg, e)
    ELSE ProviderError("Network", "fixed", e)

\* the mapper each adapter's catch block applies
MapError(type, e) ==
    CASE type = "github" -> mapGitHubError(e)
      [] type = "gitlab" -> mapGitLabError(e)
      [] OTHER -> mapBitbucketError(e)

-----------------------------------------------------------------------------
(* Retry engine *)

\* the predicate without its rate-limit case
shouldRetry_Only5xx(e) ==
    IF e.cls # "Undefined" /\ e.status # Absent
    THEN e.status >= 500
    ELSE TRUE

\* the default shouldRetry of withRetry
shouldRetry(e) ==
    IF e.cls # "Undefined" /\ e.status # Absent
    THEN e.status >= 500 \/ e.status = 429
    ELSE TRUE

\* the delay options of withRetry with their defaults; delay is the wait in
\* progress, 0 when withRetry is not sleeping
DefaultBackoff == [baseDelayMs |-> DefaultBaseDelayMs,
                   maxDelayMs |-> DefaultMaxDelayMs, jitter |-> TRUE,
                   delay |-> 0]

\* the values Math.random() is drawn from, in hundredths
RandomValues == {0, 98}

\* the delay without its cap
BackoffDelay_Uncapped(att, b) == b.baseDelayMs * (2 ^ att)

\* Math.min(baseDelayMs * Math.pow(2, attempt), maxDelayMs)
BackoffDelay(att, b) == Min(b.baseDelayMs * (2 ^ att), b.maxDelayMs)

\* delay * (0.5 + Math.random() * 0.5)
Jittered(d, random) == (d * (100 + random)) \div 200

\* the waits the catch block can compute after failed attempt att
Delays(att, b) ==
    IF b.jitter
    THEN { Jittered(BackoffDelay(att, b), r) : r \in RandomValues }
    ELSE { BackoffDelay(att, b) }

\* the loop giving up one attempt early
GiveUp_OffByOne(att, retries, e) == att + 1 >= retries \/ ~shouldRetry(e)

\* the loop testing for exhaustion only after the wait
GiveUp_AfterWait(att, retries, e) == att > retries \/ ~shouldRetry(e)

\* if (attempt === maxRetries || !shouldRetry(error)) throw error
GiveUp(att, retries, e) == att = retries \/ ~shouldRetry(e)

Top(st) == st[Len(st)]
SetTop(st, v) == [st EXCEPT ![Len(st)] = v]
Pop(st) == SubSeq(st, 1, Len(st) - 1)

-----------------------------------------------------------------------------
(* Arguments *)

\* repository identifiers, as strings over the alphabet {a, /}
Names == { <<>>, <<"a">>, <<"a", "/", "a">>, <<"a", "/">>, <<"/", "a">>,
           <<"a", "/", "a", "/", "a">> }

WellFormed == <<"a", "/", "a">>

\* String.prototype.split("/"): the segments between separators
RECURSIVE split(_)
split(str) ==
    IF \A i \in 1..Len(str) : str[i] # "/"
    THEN <<str>>
    ELSE LET i == CHOOSE k \in 1..Len(str) :
                      str[k] = "/" /\ \A j \in 1..(k - 1) : str[j] # "/"
         IN <<SubSeq(str, 1, i - 1)>> \o split(SubSeq(str, i + 1, Len(str)))

\* const [owner, repo] = repoFullName.split("/"); if (!owner || !repo) throw
InvalidRepositoryName(name) ==
    LET parts == split(name)
    IN  \/ Len(parts) < 2
        \/ parts[1] = <<>>
        \/ parts[2] = <<>>

LacksSeparator(name) == \A i \in 1..Len(name) : name[i] # "/"

\* options?.maxItems || Infinity
EffectiveMaxItems(m) == IF m = Undefined \/ m = 0 THEN Infinity ELSE m

\* Math.min(options?.perPage || default, 100)
EffectivePerPage(pp, default) ==
    Min(IF pp = Undefined \/ pp = 0 THEN default ELSE pp, PlatformMax)

DefaultPerPage(type) ==
    CASE type = "github" -> GitHubDefaultPerPage
      [] type = "gitlab" -> GitLabDefaultPerPage
      [] OTHER -> BitbucketDefaultPerPage

\* length < maxItems, with maxItems possibly Infinity
BelowCap(len, cap) == cap = Infinity \/ len < cap

-----------------------------------------------------------------------------
(* The platform: page p of size s of a listing of `total` items *)

PageItems(p, s, total) ==
    LET first == (p - 1) * s + 1
        last == Min(p * s, total)
    IN  IF first > last THEN <<>> ELSE [i \in 1..(last - first + 1) |-> first + i - 1]

HasNext(p, s, total) == p * s < total

\* for (const item of data) { if (acc.length >= maxItems) break; push }
\* run to its end: the items pushed are the leading ones that fit under the
\* cap; capped says that the cap test fired on an item left in the page
Room(a, cap) == IF cap = Infinity THEN Infinity
                ELSE IF Len(a) >= cap THEN 0 ELSE cap - Len(a)

PushUntilCap(a, data, cap) ==
    LET n == IF Room(a, cap) = Infinity THEN Len(data)
             ELSE Min(Len(data), Room(a, cap))
    IN  [acc |-> a \o SubSeq(data, 1, n), capped |-> n < Len(data)]

-----------------------------------------------------------------------------
(* State *)

Ops == {"getRepoMetadata", "getUserRepos", "getOrganizations",
        "getOrganizationRepos", "getRepoBranches", "getRepoTags"}

RepoOps == {"getRepoMetadata", "getRepoBranches", "getRepoTags"}

PagedOps == Ops \ {"getRepoMetadata"}

Types == {"github", "gitlab", "bitbucket"}

AuthKinds == {"token", "oauth", "basic"}

NoProvider == [type |-> "none", authKind |-> "token", cloud |-> FALSE,
               workspace |-> FALSE]

NoCall == [op |-> "none", name |-> <<>>, maxItems |-> Undefined,
           perPage |-> Undefined]

\* a unified provider configuration; an option is Absent, 0 (a falsy value:
\* 0 or the empty string) or a positive number (a truthy value)
NoConfig == [type |-> "none", authKind |-> "token", baseUrl |-> Absent,
             host |-> Absent, workspace |-> Absent, userAgent |-> Absent,
             requestTimeoutMs |-> Absent]

NoFactory == [mode |-> "none", pc |-> "idle", err |-> NoError, orgs |-> <<>>,
              warned |-> FALSE, config |-> NoConfig, adapter |-> NoConfig]

Pending == [status |-> "pending", value |-> <<>>, err |-> NoError]

\* the operation whose body is running: a delegated frame runs
\* getOrganizationRepos on behalf of Bitbucket's getUserRepos
Running == IF Len(attempt) = 2 THEN "getOrganizationRepos" ELSE call.op

\* every instance taken for Bitbucket Cloud
isBitbucketCloud_Always == TRUE

\* isBitbucketCloud(): the base URL contains "bitbucket.org"
isBitbucketCloud == provider.cloud

Cap == EffectiveMaxItems(call.maxItems)

PerPage == EffectivePerPage(call.perPage, DefaultPerPage(provider.type))

Init ==
    /\ fac = NoFactory
    /\ provider = NoProvider
    /\ memo = "unset"
    /\ builds = 0
    /\ call = NoCall
    /\ platform = 0
    /\ pc = "new"
    /\ attempt = <<>>
    /\ maxRetries = DefaultMaxRetries
    /\ acc = <<>>
    /\ page = 1
    /\ err = NoError
    /\ vendorErr = NoError
    /\ execs = 0
    /\ innerExecs = 0
    /\ vendorCalls = 0
    /\ fetches = 0
    /\ waits = 0
    /\ fails = 0
    /\ warned = FALSE
    /\ result = Pending
    /\ inv = <<>>
    /\ backoff = DefaultBackoff

adapterVars == <<provider, memo, builds>>
counterVars == <<execs, innerExecs, vendorCalls, fetches, waits, fails>>
bodyVars == <<acc, page>>

\* a fresh invocation: withRetry(fn) is entered with attempt = 0
Begin(c, total, retries) ==
    /\ call' = c
    /\ platform' = total
    /\ pc' = "loop"
    /\ attempt' = <<0>>
    /\ maxRetries' = retries
    /\ acc' = <<>>
    /\ page' = 1
    /\ err' = NoError
    /\ vendorErr' = NoError
    /\ execs' = 0
    /\ innerExecs' = 0
    /\ vendorCalls' = 0
    /\ fetches' = 0
    /\ waits' = 0
    /\ fails' = 0
    /\ warned' = FALSE
    /\ result' = Pending

-----------------------------------------------------------------------------
(* Unified factory *)

ProviderConfigs ==
    { [type |-> t, authKind |-> k, cloud |-> c, workspace |-> w] :
        t \in Types, k \in AuthKinds, c \in BOOLEAN, w \in BOOLEAN }

\* createProvider(config) / createProviderWithOrganizations(config) is
\* called: the switch on config.type either starts the import of the
\* provider package or throws ConfigurationError (default case)
createProvider ==
    /\ pc = "new"
    /\ \E mode \in {"create", "withOrgs"} :
         \/ \E cfg \in ProviderConfigs :
              /\ cfg.type = "bitbucket" \/ (~cfg.cloud /\ ~cfg.workspace)
              /\ fac' = [NoFactory EXCEPT !.mode = mode, !.pc = "import"]
              /\ provider' = cfg
              /\ pc' = "fac_import"
         \/ /\ fac' = [NoFactory EXCEPT !.mode = mode, !.pc = "rejected",
                         !.err = ProviderError("Configuration", "fixed", NoError)]
            /\ provider' = NoProvider
            /\ pc' = "fac_done"
    /\ UNCHANGED <<memo, builds, call, platform, attempt, maxRetries, acc,
                   page, err, vendorErr, counterVars, warned, result>>
    /\ UNCHANGED inv
    /\ UNCHANGED backoff

\* the dynamic import of the provider package settles; on failure the catch
\* block turns MODULE_NOT_FOUND into ConfigurationError and rethrows the rest
ProviderImported ==
    /\ pc = "fac_import"
    /\ \/ /\ fac.mode = "create"
          /\ fac' = [fac EXCEPT !.pc = "returned"]
          /\ pc' = "idle"
          /\ UNCHANGED <<provider, call, platform, attempt, maxRetries, acc,
                         page, err, vendorErr, counterVars, warned, result>>
       \/ /\ fac.mode = "withOrgs"
          /\ fac' = [fac EXCEPT !.pc = "discover"]
          /\ \E total \in 0..MaxTotal :
               Begin([NoCall EXCEPT !.op = "getOrganizations"], total,
                     DefaultMaxRetries)
          /\ UNCHANGED provider
       \/ /\ \E moduleNotFound \in BOOLEAN :
               fac' = [fac EXCEPT !.pc = "rejected",
                         !.err = IF moduleNotFound
                                 THEN ProviderError("Configuration",
                                                    "module-missing", NoError)
                                 ELSE PlainError("none")]
          /\ provider' = NoProvider
          /\ pc' = "fac_done"
          /\ UNCHANGED <<call, platform, attempt, maxRetries, acc, page, err,
                         vendorErr, counterVars, warned, result>>
    /\ UNCHANGED <<memo, builds>>
    /\ UNCHANGED inv
    /\ UNCHANGED backoff

\* createProviderWithOrganizations: `await provider.getOrganizations()`
\* settles; the catch block warns and returns an empty organization list
\* try { organizations = await provider.getOrganizations(); return
\* {provider, organizations} } catch (error) { console.warn(...); return
\* {provider, organizations: []} }
\* the factory letting the discovery failure through
FactoryOutcome_Propagates(f, res) ==
    IF res.status = "resolved"
    THEN [f EXCEPT !.pc = "returned", !.orgs = res.value]
    ELSE [f EXCEPT !.pc = "rejected", !.err = res.err]

FactoryOutcome(f, res) ==
    IF res.status = "resolved"
    THEN [f EXCEPT !.pc = "returned", !.orgs = res.value]
    ELSE [f EXCEPT !.pc = "returned", !.orgs = <<>>, !.warned = TRUE]

FactoryReturn ==
    /\ pc = "done"
    /\ fac.pc = "discover"
    /\ fac' = FactoryOutcome(fac, result)
    /\ pc' = "idle"
    /\ UNCHANGED <<adapterVars, call, platform, attempt, maxRetries, bodyVars,
                   err, vendorErr, counterVars, warned, result>>
    /\ UNCHANGED inv
    /\ UNCHANGED backoff

-----------------------------------------------------------------------------
(* Invocation of an adapter operation *)

MaxItemsArgs == {Undefined} \cup (0..MaxCap) \cup {BigCap}

PerPageArgs == {Undefined} \cup (0..MaxPerPage) \cup {PlatformMax + 1}

\* the calls explored: every operation with every pagination argument on a
\* well-formed identifier; the malformed identifiers with default options
Calls ==
    { c \in [op : Ops, name : Names, maxItems : MaxItemsArgs,
             perPage : PerPageArgs] :
        /\ c.op \notin RepoOps => c.name = <<>>
        /\ c.op = "getRepoMetadata" => c.maxItems = Undefined
        /\ (c.op = "getRepoMetadata" \/ c.name \notin {<<>>, WellFormed})
              => c.perPage = Undefined
        /\ (c.op \in RepoOps /\ c.name # WellFormed) => c.maxItems = Undefined }

\* the listings explored: small ones with every call, the big one with the
\* big page sizes only
Totals(c, type) ==
    IF c.op = "getRepoMetadata" THEN {1}
    ELSE (0..MaxTotal) \cup
         (IF EffectivePerPage(c.perPage, DefaultPerPage(type)) >= BitbucketDefaultPerPage
             /\ c.maxItems \in {Undefined, BigCap}
          THEN {BigTotal} ELSE {})

\* the calls during which the environment may make a vendor call or the
\* import of the vendor SDK fail
FailureInjection ==
    /\ call.maxItems \in {Undefined, 2}
    /\ call.perPage \in {Undefined, 1}
    /\ platform <= 2

Invoke ==
    /\ pc = "idle"
    /\ \E c \in Calls : \E total \in Totals(c, provider.type) :
         Begin(c, total, DefaultMaxRetries)
    /\ fac' = NoFactory
    /\ UNCHANGED adapterVars
    /\ UNCHANGED inv
    /\ UNCHANGED backoff

\* the caller has received the settlement: the invocation's frame is gone,
\* the adapter and its memoized client stay
Complete ==
    /\ pc = "done"
    /\ call.op \in Ops
    /\ fac.pc # "discover"
    /\ pc' = "idle"
    /\ call' = NoCall
    /\ platform' = 0
    /\ attempt' = <<>>
    /\ result' = Pending
    /\ err' = NoError
    /\ vendorErr' = NoError
    /\ execs' = 0
    /\ innerExecs' = 0
    /\ vendorCalls' = 0
    /\ fetches' = 0
    /\ waits' = 0
    /\ fails' = 0
    /\ warned' = FALSE
    /\ UNCHANGED <<fac, adapterVars, maxRetries, bodyVars>>
    /\ UNCHANGED inv
    /\ UNCHANGED backoff

-----------------------------------------------------------------------------
(* withRetry *)

\* for (attempt = 0; attempt <= maxRetries; attempt++) { return await fn()
\* ... } throw lastError
WithRetryLoop ==
    /\ pc = "loop"
    /\ IF Top(attempt) <= maxRetries
       THEN /\ pc' = "body"
            /\ execs' = IF Len(attempt) = 1 THEN execs + 1 ELSE execs
            /\ innerExecs' = IF Len(attempt) = 2 THEN innerExecs + 1
                             ELSE innerExecs
            /\ fetches' = 0
            /\ UNCHANGED result
       ELSE /\ pc' = "done"
            /\ result' = [status |-> "rejected", value |-> <<>>,
                          err |-> UndefinedError]
            /\ UNCHANGED <<execs, innerExecs, fetches>>
    /\ err' = NoError
    /\ vendorErr' = NoError
    /\ UNCHANGED <<fac, adapterVars, call, platform, attempt, maxRetries,
                   bodyVars, vendorCalls, waits, fails, warned>>
    /\ UNCHANGED inv
    /\ UNCHANGED backoff

\* the loop rethrowing the last error wrapped in a new error
WithRetryCatch_Rewrapped ==
    /\ pc = "caught"
    /\ fails' = fails + 1
    /\ IF GiveUp(Top(attempt), maxRetries, err)
       THEN IF Len(attempt) = 2
            THEN /\ attempt' = Pop(attempt)
                 /\ pc' = "caught"
                 /\ UNCHANGED <<result, backoff>>
            ELSE /\ pc' = "done"
                 /\ result' = [status |-> "rejected", value |-> <<>>,
                               err |-> ProviderError("Network", "fixed", err)]
                 /\ UNCHANGED <<attempt, backoff>>
       ELSE /\ pc' = "sleep"
            /\ \E d \in Delays(Top(attempt), backoff) :
                 backoff' = [backoff EXCEPT !.delay = d]
            /\ UNCHANGED <<attempt, result>>
    /\ UNCHANGED <<fac, adapterVars, call, platform, maxRetries, bodyVars,
                   err, vendorErr, execs, innerExecs, vendorCalls, fetches,
                   waits, warned>>
    /\ UNCHANGED inv

\* catch (error) { lastError = error; if (attempt === maxRetries ||
\* !shouldRetry(error)) throw error; ... await sleep(delay) }
\* A delegated withRetry that throws rejects the body that returned its
\* promise, unmapped: `return this.getOrganizationRepos(...)` is not awaited
\* inside the try block.
WithRetryCatch ==
    /\ pc = "caught"
    /\ fails' = fails + 1
    /\ IF GiveUp(Top(attempt), maxRetries, err)
       THEN IF Len(attempt) = 2
            THEN /\ attempt' = Pop(attempt)
                 /\ pc' = "caught"
                 /\ UNCHANGED <<result, backoff>>
            ELSE /\ pc' = "done"
                 /\ result' = [status |-> "rejected", value |-> <<>>,
                               err |-> err]
                 /\ UNCHANGED <<attempt, backoff>>
       ELSE /\ pc' = "sleep"
            /\ \E d \in Delays(Top(attempt), backoff) :
                 backoff' = [backoff EXCEPT !.delay = d]
            /\ UNCHANGED <<attempt, result>>
    /\ UNCHANGED <<fac, adapterVars, call, platform, maxRetries, bodyVars,
                   err, vendorErr, execs, innerExecs, vendorCalls, fetches,
                   waits, warned>>
    /\ UNCHANGED inv

\* await sleep(delay) elapses; the loop increments attempt
SleepElapsed ==
    /\ pc = "sleep"
    /\ waits' = waits + 1
    /\ backoff' = [backoff EXCEPT !.delay = 0]
    /\ attempt' = SetTop(attempt, Top(attempt) + 1)
    /\ pc' = "loop"
    /\ UNCHANGED <<fac, adapterVars, call, platform, maxRetries, bodyVars,
                   err, vendorErr, execs, innerExecs, vendorCalls, fetches,
                   fails, warned, result>>
    /\ UNCHANGED inv

-----------------------------------------------------------------------------
(* Pagination loops: what the body does with a page it received.  The      *)
(* result says whether the body returns the accumulator or requests the    *)
(* next page.                                                              *)

\* the loop without its test for an empty page
GitLabAfterPage_NoEmptyBreak(a, data, cap) ==
    LET r == PushUntilCap(a, data, cap)
    IN  [next |-> BelowCap(Len(r.acc), cap), acc |-> r.acc]

\* GitLab: while (acc.length < maxItems) { page = await ...all({page,
\* per_page}); if (!page.length) break; for (...) { if (acc.length >=
\* maxItems) break; acc.push(...) } page++ }
GitLabAfterPage(a, data, cap) ==
    IF data = <<>> THEN [next |-> FALSE, acc |-> a]
    ELSE LET r == PushUntilCap(a, data, cap)
         IN  [next |-> BelowCap(Len(r.acc), cap), acc |-> r.acc]

\* Bitbucket: as GitLab, and `if (!data.next) break` before page++
BitbucketAfterPage(a, data, hasNext, cap) ==
    IF data = <<>> THEN [next |-> FALSE, acc |-> a]
    ELSE LET r == PushUntilCap(a, data, cap)
         IN  [next |-> hasNext /\ BelowCap(Len(r.acc), cap), acc |-> r.acc]

\* GitHub: for await (const response of cli.paginate.iterator(...)) { for
\* (const r of response.data) { if (acc.length >= maxItems) return acc;
\* acc.push(...) } } return acc.  The iterator requests the next page when
\* the loop body completes and the response carried a next link.
GitHubAfterPage(a, data, hasNext, cap) ==
    LET r == PushUntilCap(a, data, cap)
    IN  [next |-> ~r.capped /\ hasNext, acc |-> r.acc]

\* GitHub getOrganizations / getOrganizationRepos: stop when the page is
\* empty, when there is no next page, or when the accumulator reaches
\* maxItems, testing the cap per item
GitHubOrgAfterPage(a, data, hasNext, cap) ==
    IF data = <<>> THEN [next |-> FALSE, acc |-> a]
    ELSE LET r == PushUntilCap(a, data, cap)
         IN  [next |-> hasNext /\ BelowCap(Len(r.acc), cap), acc |-> r.acc]

AfterPage(type, op, a, data, hasNext, cap) ==
    CASE type = "gitlab" -> GitLabAfterPage(a, data, cap)
      [] type = "bitbucket" -> BitbucketAfterPage(a, data, hasNext, cap)
      [] type = "github" /\ op \in {"getOrganizations", "getOrganizationRepos"}
            -> GitHubOrgAfterPage(a, data, hasNext, cap)
      [] OTHER -> GitHubAfterPage(a, data, hasNext, cap)

-----------------------------------------------------------------------------
(* Operation bodies *)

\* the list kept in a field that outlives the body execution
NewAccumulator_Kept == acc

\* `const repos: Repo[] = []` at the start of the body: every execution
\* has a list of its own, gone when the execution ends
NewAccumulator == <<>>

\* the body throws e inside its try block: catch (error) { throw
\* map<Provider>Error(error) }
Throw(e) ==
    /\ pc' = "caught"
    /\ err' = MapError(provider.type, e)
    /\ acc' = NewAccumulator
    /\ page' = 1
    /\ UNCHANGED <<attempt, vendorCalls, fetches, result>>

\* the body returns v: withRetry returns it (and so does a delegating body)
Return(v) ==
    /\ pc' = "done"
    /\ result' = [status |-> "resolved", value |-> v, err |-> NoError]
    /\ attempt' = <<attempt[1]>>
    /\ acc' = <<>>
    /\ page' = 1
    /\ UNCHANGED <<err, vendorCalls, fetches>>

\* the body advancing the page counter once more before the request
Fetch_SkipsPage(a, p) ==
    /\ pc' = "call"
    /\ acc' = a
    /\ page' = IF p > 1 THEN p + 1 ELSE p
    /\ vendorCalls' = vendorCalls + 1
    /\ fetches' = fetches + 1
    /\ UNCHANGED <<attempt, err, result>>

\* the body issues a vendor call for page p with accumulator a
Fetch(a, p) ==
    /\ pc' = "call"
    /\ acc' = a
    /\ page' = p
    /\ vendorCalls' = vendorCalls + 1
    /\ fetches' = fetches + 1
    /\ UNCHANGED <<attempt, err, result>>

\* the body has its client: it issues its first vendor call
FirstCall == Fetch(NewAccumulator, 1)

\* the split check of the GitHub and Bitbucket repository operations
\* (GitLab passes repoFullName to the vendor unchecked)
SplitFails ==
    /\ provider.type \in {"github", "bitbucket"}
    /\ Running \in RepoOps
    /\ InvalidRepositoryName(call.name)

\* Bitbucket getUserRepos on Cloud: the workspace check and the delegation
OnCloudUserRepos ==
    /\ provider.type = "bitbucket"
    /\ Running = "getUserRepos"
    /\ isBitbucketCloud

\* the switch on auth.kind in client(): GitLab and Bitbucket throw on a
\* kind outside their set, GitHub treats every kind but "app" as a token
AuthKindSupported ==
    CASE provider.type = "gitlab" -> provider.authKind \in {"token", "oauth", "job"}
      [] provider.type = "bitbucket" -> provider.authKind \in {"basic", "oauth"}
      [] OTHER -> TRUE

\* the body starts and runs to its first await
BodyStart ==
    /\ pc = "body"
    /\ call.op \in Ops
    /\ IF SplitFails
       THEN Throw(PlainError("invalid-name"))
       ELSE IF OnCloudUserRepos /\ ~provider.workspace
       THEN Throw(PlainError("workspace"))
       ELSE IF OnCloudUserRepos
       THEN /\ attempt' = Append(attempt, 0)
            /\ pc' = "loop"
            /\ UNCHANGED <<bodyVars, err, vendorCalls, fetches, result>>
       ELSE IF memo = "ready"
       THEN FirstCall
       ELSE /\ pc' = "import"
            /\ UNCHANGED <<attempt, bodyVars, err, vendorCalls, fetches, result>>
    /\ UNCHANGED <<fac, adapterVars, call, platform, maxRetries, vendorErr,
                   execs, innerExecs, waits, fails, warned>>
    /\ UNCHANGED inv
    /\ UNCHANGED backoff

\* client() assigning the handle before the auth switch and the
\* construction, so that a failure leaves it behind
ClientImported_CachesFailure ==
    /\ pc = "import"
    /\ \/ /\ AuthKindSupported
          /\ memo' = "ready"
          /\ builds' = builds + 1
          /\ FirstCall
       \/ /\ ~AuthKindSupported
          /\ Throw(ProviderError("Network", "init", PlainError("unsupported-auth")))
          /\ memo' = "ready"
          /\ UNCHANGED builds
       \/ /\ FailureInjection
          /\ Throw(ProviderError("Network", "init", PlainError("module-missing")))
          /\ memo' = "ready"
          /\ UNCHANGED builds
    /\ UNCHANGED <<fac, provider, call, platform, maxRetries, vendorErr,
                   execs, innerExecs, waits, fails, warned>>
    /\ UNCHANGED inv
    /\ UNCHANGED backoff

\* client(): the import of the vendor SDK settles, the auth switch runs, the
\* client is constructed and memoized; any failure is rethrown as
\* NetworkError("Failed to initialize ... client", error)
ClientImported ==
    /\ pc = "import"
    /\ \/ /\ AuthKindSupported
          /\ memo' = "ready"
          /\ builds' = builds + 1
          /\ FirstCall
       \/ /\ ~AuthKindSupported
          /\ Throw(ProviderError("Network", "init", PlainError("unsupported-auth")))
          /\ UNCHANGED <<memo, builds>>
       \/ /\ FailureInjection
          /\ Throw(ProviderError("Network", "init", PlainError("module-missing")))
          /\ UNCHANGED <<memo, builds>>
    /\ UNCHANGED <<fac, provider, call, platform, maxRetries, vendorErr,
                   execs, innerExecs, waits, fails, warned>>
    /\ UNCHANGED inv
    /\ UNCHANGED backoff


\* only the repository loop having a try block of its own
InnerTry_ReposOnly ==
    /\ provider.type = "bitbucket"
    /\ ~isBitbucketCloud
    /\ Running = "getOrganizationRepos"

\* the self-hosted Bitbucket loops wrap their vendor call in a try block of
\* their own
InnerTry ==
    /\ provider.type = "bitbucket"
    /\ ~isBitbucketCloud
    /\ Running \in {"getOrganizations", "getOrganizationRepos"}

\* the vendor call settles and the body runs on to its next await
VendorRespond ==
    /\ pc = "call"
    /\ call.op \in Ops
    /\ \/ /\ Running = "getRepoMetadata"
          /\ Return(<<1>>)
          /\ UNCHANGED <<vendorErr, warned>>
       \/ /\ Running # "getRepoMetadata"
          /\ LET d == AfterPage(provider.type, Running, acc,
                                PageItems(page, PerPage, platform),
                                HasNext(page, PerPage, platform), Cap)
             IN  IF d.next THEN Fetch(d.acc, page + 1) ELSE Return(d.acc)
          /\ UNCHANGED <<vendorErr, warned>>
       \/ /\ FailureInjection
          /\ \E e \in VendorErrors :
               /\ vendorErr' = e
               /\ IF InnerTry /\ Running = "getOrganizations"
                  THEN \* catch (error) { console.warn(...); break }
                       /\ Return(acc)
                       /\ warned' = TRUE
                  ELSE IF InnerTry
                  THEN \* catch (error) { throw new Error("Cannot access ...") }
                       /\ Throw(PlainError("no-project-access"))
                       /\ UNCHANGED warned
                  ELSE /\ Throw(e)
                       /\ UNCHANGED warned
    /\ UNCHANGED <<fac, adapterVars, call, platform, maxRetries, execs,
                   innerExecs, waits, fails>>
    /\ UNCHANGED inv
    /\ UNCHANGED backoff

-----------------------------------------------------------------------------
(* withRetry on its own: a caller-supplied policy and an operation that    *)
(* the environment lets succeed or throw                                   *)

Policies == (0 - 1)..MaxPolicyRetries

\* the delay options a caller passes
BackoffOptions ==
    [baseDelayMs : {DefaultBaseDelayMs, 3 * DefaultBaseDelayMs},
     maxDelayMs : {DefaultMaxDelayMs, 2 * DefaultBaseDelayMs},
     jitter : BOOLEAN, delay : {0}]

\* what the operation can throw: errors with and without a status
FnErrors ==
    { [cls |-> "Raw", isErr |-> TRUE, status |-> s, resp |-> Absent,
       cause |-> Absent, msg |-> "none"] : s \in Statuses \cup {Absent} }

SuccessValue == <<1>>

InvokeWithRetry ==
    /\ pc = "new"
    /\ \E r \in Policies :
         Begin([NoCall EXCEPT !.op = "withRetry"], 0, r)
    /\ \E b \in BackoffOptions : backoff' = b
    /\ UNCHANGED <<fac, adapterVars>>
    /\ UNCHANGED inv

\* fn() settles
FnRun ==
    /\ pc = "body"
    /\ call.op = "withRetry"
    /\ \/ /\ pc' = "done"
          /\ result' = [status |-> "resolved", value |-> SuccessValue,
                        err |-> NoError]
          /\ UNCHANGED err
       \/ /\ \E e \in FnErrors : err' = e
          /\ pc' = "caught"
          /\ UNCHANGED result
    /\ UNCHANGED <<fac, adapterVars, call, platform, attempt, maxRetries,
                   bodyVars, vendorErr, counterVars, warned>>
    /\ UNCHANGED inv
    /\ UNCHANGED backoff

-----------------------------------------------------------------------------
(* The error mappers on their own: the catch block of an operation body    *)
(* receives whatever the vendor SDK threw and rethrows what the adapter's  *)
(* mapper returns                                                          *)

\* the shapes a thrown error can have: each of the three status locations
\* absent, present without a status, or carrying a status, and a message
\* carrying one of the patterns the mappers look for or none
MapperInputs ==
    { [cls |-> "Raw", isErr |-> TRUE, status |-> s, resp |-> r, cause |-> c,
       msg |-> m] :
        s \in {Absent, 401, 404, 500},
        r \in {Absent, NoStatus, 401, 404},
        c \in {Absent, NoStatus, 401, 404},
        m \in {"none", "Unauthorized", "Not Found", "Rate limit"} }

\* catch (error) { throw map<Provider>Error(error) }
CatchAndMap ==
    /\ pc = "new"
    /\ \E t \in Types : \E e \in MapperInputs :
         /\ provider' = [NoProvider EXCEPT !.type = t]
         /\ call' = [NoCall EXCEPT !.op = "mapError"]
         /\ vendorErr' = e
         /\ err' = MapError(t, e)
    /\ pc' = "done"
    /\ UNCHANGED <<fac, memo, builds, platform, attempt, maxRetries, bodyVars,
                   counterVars, warned, result>>
    /\ UNCHANGED inv
    /\ UNCHANGED backoff

\* a domain error thrown inside a try block whose catch maps again: the
\* error the first mapping produced, the NetworkError of client() or a
\* ConfigurationError
DomainErrorsThrown ==
    {err,
     ProviderError("Network", "init", PlainError("module-missing")),
     ProviderError("Configuration", "fixed", vendorErr)}

\* catch (error) { throw map<Provider>Error(error) } receiving a domain
\* error
CatchAndMapAgain ==
    /\ pc = "done"
    /\ call.op = "mapError"
    /\ \E e \in DomainErrorsThrown :
         /\ vendorErr' = e
         /\ err' = MapError(provider.type, e)
    /\ call' = [NoCall EXCEPT !.op = "remapError"]
    /\ UNCHANGED <<fac, provider, memo, builds, platform, pc, attempt,
                   maxRetries, bodyVars, counterVars, warned, result>>
    /\ UNCHANGED inv
    /\ UNCHANGED backoff

-----------------------------------------------------------------------------
(* Concurrent invocations on one adapter instance.  Every invocation runs  *)
(* the body of its operation: the accumulator, the page counter and the    *)
(* client reference are locals of its own closure, the memoized handle is  *)
(* a field of the adapter.  The platform answers every call.               *)

Procs == {1, 2}

MaxInvocations == 3   \* invocations started on the adapter
RaceTotal == 3        \* the platform holds 0..RaceTotal items per listing

NoInvocation == [pc |-> "idle", call |-> NoCall, total |-> 0, client |-> 0,
                 handle |-> "none", acc |-> <<>>, page |-> 1, value |-> <<>>,
                 search |-> FALSE, query |-> FALSE, fetched |-> <<>>]

\* adapters constructed with an auth kind their client() accepts
RaceAdapters ==
    { cfg \in ProviderConfigs :
        /\ cfg.type = "bitbucket" \/ ~cfg.cloud
        /\ ~cfg.workspace
        /\ cfg.authKind = "oauth" }

RaceCalls ==
    { c \in Calls :
        /\ c.op \in {"getRepoBranches", "getOrganizationRepos"}
        /\ c.op = "getRepoBranches" => c.name = WellFormed
        /\ c.maxItems \in {Undefined, 2}
        /\ c.perPage \in {1, 2} }

\* new GitHubProvider(options) / new GitLabProvider / new BitbucketProvider
NewAdapter ==
    /\ pc = "new"
    /\ \E cfg \in RaceAdapters : provider' = cfg
    /\ pc' = "race"
    /\ inv' = [p \in Procs |-> NoInvocation]
    /\ UNCHANGED <<fac, memo, builds, call, platform, attempt, maxRetries,
                   bodyVars, err, vendorErr, counterVars, warned, result>>
    /\ UNCHANGED backoff

\* the accumulator kept in a field of the adapter, shared by its invocations
Accumulator_Shared(p) == inv[1].acc

\* the accumulator an invocation appends to: `const repos = []` of its own
\* body execution
Accumulator(p) == inv[p].acc

\* client() assigning a not yet configured client to the handle before it
\* awaits the import
RaceInvoke_Placeholder(p) ==
    /\ pc = "race"
    /\ inv[p].pc = "idle"
    /\ execs < MaxInvocations
    /\ \E c \in RaceCalls : \E total \in 0..RaceTotal :
         /\ provider.type = "github" => c.op = "getRepoBranches"
         /\ inv' = [inv EXCEPT ![p] =
                IF memo # "unset"
                THEN [NoInvocation EXCEPT !.pc = "call", !.call = c,
                        !.total = total, !.client = builds, !.handle = memo]
                ELSE [NoInvocation EXCEPT !.pc = "import", !.call = c,
                        !.total = total]]
    /\ memo' = IF memo = "unset" THEN "partial" ELSE memo
    /\ execs' = execs + 1
    /\ UNCHANGED <<fac, provider, builds, call, platform, pc, attempt,
                   maxRetries, bodyVars, err, vendorErr, innerExecs,
                   vendorCalls, fetches, waits, fails, warned, result>>
    /\ UNCHANGED backoff

\* an operation is invoked and runs into client(): if (this.client) return
\* this.client, else the import of the vendor SDK is awaited
RaceInvoke(p) ==
    /\ pc = "race"
    /\ inv[p].pc = "idle"
    /\ execs < MaxInvocations
    /\ \E c \in RaceCalls : \E total \in 0..RaceTotal :
         /\ provider.type = "github" => c.op = "getRepoBranches"
         /\ inv' = [inv EXCEPT ![p] =
                IF memo # "unset"
                THEN [NoInvocation EXCEPT !.pc = "call", !.call = c,
                        !.total = total, !.client = builds, !.handle = memo]
                ELSE [NoInvocation EXCEPT !.pc = "import", !.call = c,
                        !.total = total]]
    /\ execs' = execs + 1
    /\ UNCHANGED <<fac, adapterVars, call, platform, pc, attempt, maxRetries,
                   bodyVars, err, vendorErr, innerExecs, vendorCalls, fetches,
                   waits, fails, warned, result>>
    /\ UNCHANGED backoff

\* client(): the import has settled; the client is constructed from the
\* complete config, assigned to the handle and returned
RaceClientImported(p) ==
    /\ pc = "race"
    /\ inv[p].pc = "import"
    /\ memo' = "ready"
    /\ builds' = builds + 1
    /\ inv' = [inv EXCEPT ![p].pc = "call", ![p].client = builds + 1,
                          ![p].handle = "ready"]
    /\ UNCHANGED <<fac, provider, call, platform, pc, attempt, maxRetries,
                   bodyVars, err, vendorErr, counterVars, warned, result>>
    /\ UNCHANGED backoff

\* the page arrives: the body appends to its accumulator and requests the
\* next page or returns
RaceVendorRespond(p) ==
    /\ pc = "race"
    /\ inv[p].pc = "call"
    /\ LET c == inv[p].call
           size == EffectivePerPage(c.perPage, DefaultPerPage(provider.type))
           d == AfterPage(provider.type, c.op, Accumulator(p),
                          PageItems(inv[p].page, size, inv[p].total),
                          HasNext(inv[p].page, size, inv[p].total),
                          EffectiveMaxItems(c.maxItems))
       IN  inv' = [inv EXCEPT ![p] =
              IF d.next
              THEN [@ EXCEPT !.acc = d.acc, !.page = @ + 1]
              ELSE [@ EXCEPT !.pc = "done", !.value = d.acc, !.acc = <<>>,
                             !.page = 1]]
    /\ UNCHANGED <<fac, adapterVars, call, platform, pc, attempt, maxRetries,
                   bodyVars, err, vendorErr, counterVars, warned, result>>
    /\ UNCHANGED backoff

\* the caller has received the list
RaceSettle(p) ==
    /\ pc = "race"
    /\ inv[p].pc = "done"
    /\ inv' = [inv EXCEPT ![p] = NoInvocation]
    /\ UNCHANGED <<fac, adapterVars, call, platform, pc, attempt, maxRetries,
                   bodyVars, err, vendorErr, counterVars, warned, result>>
    /\ UNCHANGED backoff

-----------------------------------------------------------------------------
(* Repository listings with a search term.  `search` says that the caller  *)
(* gave a term, `query` that the outstanding list request carries it, and  *)
(* `fetched` holds the items of the pages the endpoint has returned.       *)

SearchTotal == 4      \* the platform holds 0..SearchTotal repositories

\* the repositories whose name or full name contains the term:
\* r.full_name.includes(search) || r.name.includes(search)
Matches(i) == i % 2 = 1

AllItems(total) == [i \in 1..total |-> i]

Matching(total) == [k \in 1..((total + 1) \div 2) |-> 2 * k - 1]

\* the first `cap` items of a list
UpToCap(list, cap) ==
    IF cap = Infinity THEN list ELSE SubSeq(list, 1, Min(cap, Len(list)))

\* the parameters of the list request: GitLab sends `search`, Bitbucket
\* `q: name~"term"`; GitHub's listForAuthenticatedUser request has none
SendsSearch(type, op) == ~(type = "github" /\ op = "getUserRepos")

\* the listing the endpoint pages through for a request
Listing(query, total) == IF query THEN Matching(total) ELSE AllItems(total)

PageOf(list, p, s) ==
    IF (p - 1) * s >= Len(list) THEN <<>>
    ELSE SubSeq(list, (p - 1) * s + 1, Min(p * s, Len(list)))

\* GitHub getUserRepos: for (const r of response.data) { if (repos.length
\* >= maxItems) return repos; if (!search || r.full_name.includes(search)
\* || r.name.includes(search)) repos.push(...) }
RECURSIVE PushMatching(_, _, _, _)
PushMatching(a, data, cap, search) ==
    IF data = <<>> THEN [acc |-> a, capped |-> FALSE]
    ELSE IF ~BelowCap(Len(a), cap) THEN [acc |-> a, capped |-> TRUE]
    ELSE PushMatching(IF ~search \/ Matches(Head(data))
                      THEN Append(a, Head(data)) ELSE a,
                      Tail(data), cap, search)

\* every adapter appending each item of the page
SearchAfterPage_Passthrough(type, op, a, data, hasNext, cap, search) ==
    AfterPage(type, op, a, data, hasNext, cap)

\* what the body does with a page of repositories
SearchAfterPage(type, op, a, data, hasNext, cap, search) ==
    IF type = "github" /\ op = "getUserRepos"
    THEN LET r == PushMatching(a, data, cap, search)
         IN  [next |-> ~r.capped /\ hasNext, acc |-> r.acc]
    ELSE AfterPage(type, op, a, data, hasNext, cap)

\* adapters whose repository listings reach the endpoint: Bitbucket Cloud
\* has its workspace configured
SearchAdapters ==
    { cfg \in ProviderConfigs :
        /\ cfg.type = "bitbucket" \/ (~cfg.cloud /\ ~cfg.workspace)
        /\ (cfg.type = "bitbucket" /\ cfg.cloud) => cfg.workspace
        /\ cfg.authKind = "oauth" }

SearchCalls ==
    { c \in Calls :
        /\ c.op \in {"getUserRepos", "getOrganizationRepos"}
        /\ c.maxItems \in {Undefined, 2}
        /\ c.perPage \in {1, 2} }

NewSearchAdapter ==
    /\ pc = "new"
    /\ \E cfg \in SearchAdapters : provider' = cfg
    /\ pc' = "search"
    /\ inv' = [p \in {1} |-> NoInvocation]
    /\ UNCHANGED <<fac, memo, builds, call, platform, attempt, maxRetries,
                   bodyVars, err, vendorErr, counterVars, warned, result>>
    /\ UNCHANGED backoff

\* getUserRepos(search, options) / getOrganizationRepos(org, search,
\* options) is invoked and runs into client()
SearchInvoke ==
    /\ pc = "search"
    /\ inv[1].pc = "idle"
    /\ \E c \in SearchCalls : \E term \in BOOLEAN :
       \E total \in 0..SearchTotal :
         /\ provider.type = "github" => c.op = "getUserRepos"
         /\ inv' = [inv EXCEPT ![1] =
                [NoInvocation EXCEPT
                    !.pc = IF memo = "unset" THEN "import" ELSE "call",
                    !.call = c, !.total = total, !.search = term,
                    !.client = builds, !.handle = memo,
                    !.query = memo # "unset" /\ term
                                /\ SendsSearch(provider.type, c.op)]]
    /\ UNCHANGED <<fac, adapterVars, call, platform, pc, attempt, maxRetries,
                   bodyVars, err, vendorErr, counterVars, warned, result>>
    /\ UNCHANGED backoff

\* client(): the import has settled and the client is constructed; the
\* body sends its first list request
SearchClientImported ==
    /\ pc = "search"
    /\ inv[1].pc = "import"
    /\ memo' = "ready"
    /\ builds' = builds + 1
    /\ inv' = [inv EXCEPT ![1].pc = "call", ![1].client = builds + 1,
                          ![1].handle = "ready",
                          ![1].query = inv[1].search
                              /\ SendsSearch(provider.type, inv[1].call.op)]
    /\ UNCHANGED <<fac, provider, call, platform, pc, attempt, maxRetries,
                   bodyVars, err, vendorErr, counterVars, warned, result>>
    /\ UNCHANGED backoff

\* the page arrives: the body appends to its accumulator and requests the
\* next page, with the same parameters, or returns
SearchVendorRespond ==
    /\ pc = "search"
    /\ inv[1].pc = "call"
    /\ LET c == inv[1].call
           size == EffectivePerPage(c.perPage, DefaultPerPage(provider.type))
           list == Listing(inv[1].query, inv[1].total)
           data == PageOf(list, inv[1].page, size)
           d == SearchAfterPage(provider.type, c.op, inv[1].acc, data,
                                inv[1].page * size < Len(list),
                                EffectiveMaxItems(c.maxItems), inv[1].search)
       IN  inv' = [inv EXCEPT ![1] =
              IF d.next
              THEN [@ EXCEPT !.acc = d.acc, !.page = @ + 1,
                             !.fetched = @ \o data]
              ELSE [@ EXCEPT !.pc = "done", !.value = d.acc, !.acc = <<>>,
                             !.page = 1, !.fetched = @ \o data,
                             !.query = FALSE]]
    /\ UNCHANGED <<fac, adapterVars, call, platform, pc, attempt, maxRetries,
                   bodyVars, err, vendorErr, counterVars, warned, result>>
    /\ UNCHANGED backoff

\* the caller has received the list
SearchSettle ==
    /\ pc = "search"
    /\ inv[1].pc = "done"
    /\ inv' = [inv EXCEPT ![1] = NoInvocation]
    /\ UNCHANGED <<fac, adapterVars, call, platform, pc, attempt, maxRetries,
                   bodyVars, err, vendorErr, counterVars, warned, result>>
    /\ UNCHANGED backoff

-----------------------------------------------------------------------------
(* createProvider(config) with every option of the configuration *)

OptionNames == {"baseUrl", "host", "workspace", "userAgent",
                "requestTimeoutMs"}

FactoryConfigs ==
    [type : Types \cup {"svn"}, authKind : AuthKinds,
     baseUrl : {Absent, 0, 1}, host : {Absent, 1}, workspace : {Absent, 1},
     userAgent : {Absent, 0, 1}, requestTimeoutMs : {Absent, 0, 5000}]

\* if (config.x) options.x = config.x
Truthy(v) == v # Absent /\ v # 0

\* the options each case of the switch copies when they are truthy
Forwarded(type) ==
    CASE type = "github" -> {"baseUrl", "userAgent", "requestTimeoutMs"}
      [] type = "gitlab" -> {"host", "baseUrl", "userAgent",
                             "requestTimeoutMs"}
      [] type = "bitbucket" -> {"workspace", "baseUrl", "userAgent",
                                "requestTimeoutMs"}
      [] OTHER -> {}

\* what an adapter reads from an option: this.opts.x || default
EffectiveOption(v) == IF Truthy(v) THEN v ELSE Absent

\* every case constructing the GitHub adapter
Construct_GitHubAlways(cfg) ==
    [o \in OptionNames \cup {"type", "authKind"} |->
        IF o = "type" THEN "github"
        ELSE IF o = "authKind" THEN cfg.authKind
        ELSE IF o \in Forwarded(cfg.type) /\ Truthy(cfg[o]) THEN cfg[o]
        ELSE Absent]

\* const options = { auth: config.auth }; if (config.x) options.x =
\* config.x; return new <Type>Provider(options)
Construct(cfg) ==
    [o \in OptionNames \cup {"type", "authKind"} |->
        IF o = "type" THEN cfg.type
        ELSE IF o = "authKind" THEN cfg.authKind
        ELSE IF o \in Forwarded(cfg.type) /\ Truthy(cfg[o]) THEN cfg[o]
        ELSE Absent]

\* createProvider(config) is called: switch (config.type) starts the
\* import of the provider package or, in the default case, throws
\* ConfigurationError
FactoryDispatch ==
    /\ pc = "new"
    /\ \E cfg \in FactoryConfigs :
         IF cfg.type \in Types
         THEN /\ fac' = [NoFactory EXCEPT !.mode = "create", !.pc = "import",
                                          !.config = cfg]
              /\ pc' = "fac_import"
         ELSE /\ fac' = [NoFactory EXCEPT !.mode = "create",
                           !.pc = "rejected", !.config = cfg,
                           !.err = ProviderError("Configuration", "fixed",
                                                 NoError)]
              /\ pc' = "fac_done"
    /\ UNCHANGED <<adapterVars, call, platform, attempt, maxRetries, bodyVars,
                   err, vendorErr, counterVars, warned, result>>
    /\ UNCHANGED inv
    /\ UNCHANGED backoff

\* the `code` of the error a failed `await import("@uni-git/provider-x")`
\* rejects with.  When the package is not installed the code depends on
\* the module system of the build: "MODULE_NOT_FOUND" where the import is
\* compiled to require(), "ERR_MODULE_NOT_FOUND" under the ES module
\* loader.  "none" is any other failure of the import.
MissingModuleCodes == {"MODULE_NOT_FOUND", "ERR_MODULE_NOT_FOUND"}

ImportFailureCodes == MissingModuleCodes \cup {"none"}

\* the catch block reporting every error as ConfigurationError
FactoryCatch_Always(e) == ProviderError("Configuration", "module-missing", e)

\* catch (error) { if (error && typeof error === "object" && "code" in
\* error && error.code === "MODULE_NOT_FOUND") throw new
\* ConfigurationError("<X> provider not available. Install ...", error);
\* throw error }
FactoryCatch(e) ==
    IF e.msg = "MODULE_NOT_FOUND"
    THEN ProviderError("Configuration", "module-missing", e)
    ELSE e

\* the import settles: the adapter is constructed and returned, or the
\* catch block turns MODULE_NOT_FOUND into ConfigurationError and rethrows
\* any other error
FactoryConstruct ==
    /\ pc = "fac_import"
    /\ fac.config # NoConfig
    /\ \/ /\ fac' = [fac EXCEPT !.pc = "returned",
                                 !.adapter = Construct(fac.config)]
          /\ pc' = "fac_done"
          /\ UNCHANGED vendorErr
       \/ /\ \E code \in ImportFailureCodes :
               /\ vendorErr' = PlainError(code)
               /\ fac' = [fac EXCEPT !.pc = "rejected",
                            !.err = FactoryCatch(PlainError(code))]
          /\ pc' = "fac_done"
    /\ UNCHANGED <<adapterVars, call, platform, attempt, maxRetries, bodyVars,
                   err, counterVars, warned, result>>
    /\ UNCHANGED inv
    /\ UNCHANGED backoff

-----------------------------------------------------------------------------
(* Specifications *)

Next ==
    \/ createProvider
    \/ ProviderImported
    \/ FactoryReturn
    \/ Invoke
    \/ Complete
    \/ WithRetryLoop
    \/ BodyStart
    \/ ClientImported
    \/ VendorRespond
    \/ WithRetryCatch
    \/ SleepElapsed

Spec == Init /\ [][Next]_vars

NextRetry ==
    \/ InvokeWithRetry
    \/ WithRetryLoop
    \/ FnRun
    \/ WithRetryCatch
    \/ SleepElapsed

\* the event loop runs every continuation that is ready: a vendor call or
\* an import settles, a timer elapses, the code after an await resumes
SpecFair ==
    /\ Spec
    /\ WF_vars(WithRetryLoop)
    /\ WF_vars(BodyStart)
    /\ WF_vars(ClientImported)
    /\ WF_vars(VendorRespond)
    /\ WF_vars(WithRetryCatch)
    /\ WF_vars(SleepElapsed)

SpecRetry == Init /\ [][NextRetry]_vars

NextMap ==
    \/ CatchAndMap
    \/ CatchAndMapAgain

SpecMap == Init /\ [][NextMap]_vars

NextRace ==
    \/ NewAdapter
    \/ \E p \in Procs : RaceInvoke(p)
    \/ \E p \in Procs : RaceClientImported(p)
    \/ \E p \in Procs : RaceVendorRespond(p)
    \/ \E p \in Procs : RaceSettle(p)

SpecRace == Init /\ [][NextRace]_vars

NextSearch ==
    \/ NewSearchAdapter
    \/ SearchInvoke
    \/ SearchClientImported
    \/ SearchVendorRespond
    \/ SearchSettle

SpecSearch == Init /\ [][NextSearch]_vars

NextFactory ==
    \/ FactoryDispatch
    \/ FactoryConstruct

SpecFactory == Init /\ [][NextFactory]_vars

TypeOK ==
    /\ pc \in {"new", "fac_import", "fac_done", "idle", "loop", "body",
               "import", "call", "caught", "sleep", "done", "race", "search"}
    /\ memo \in {"unset", "ready"}
    /\ Len(attempt) \in 0..2
    /\ result.status \in {"pending", "resolved", "rejected"}

-----------------------------------------------------------------------------
(* Properties *)

Settled == pc = "done" /\ call.op \in Ops
Resolved == Settled /\ result.status = "resolved"
Rejected == Settled /\ result.status = "rejected"

\* no vendor call and no body failed during the invocation
FailureFree == fails = 0 /\ ~warned

\* C1: for every paginated operation of every adapter and every
\* caller-supplied maxItems = N >= 0, a run in which no call fails returns a
\* list of length exactly min(N, items the platform holds).
C1_ResultLength ==
    (Resolved /\ call.op \in PagedOps /\ FailureFree /\ call.maxItems >= 0)
        => Len(result.value) = Min(call.maxItems, platform)

\* C2: withRetry with maxRetries = R >= 0 and an operation whose failures
\* are all retryable: after k <= R failures and a success it resolves with
\* the success value after exactly k+1 executions; when every execution
\* fails it rejects after exactly R+1 executions.
C2_Retryable(e) == e.status = Absent \/ e.status >= 500 \/ e.status = 429

C2_RetryCount ==
    (pc = "done" /\ call.op = "withRetry" /\ maxRetries >= 0)
        => /\ result.status = "resolved"
                => /\ execs = fails + 1
                   /\ fails <= maxRetries
                   /\ result.value = SuccessValue
           /\ (result.status = "rejected" /\ C2_Retryable(result.err))
                => /\ execs = maxRetries + 1
                   /\ fails = maxRetries + 1

\* three failures, then success on the fourth execution
C2_Witness ==
    /\ pc = "done"
    /\ call.op = "withRetry"
    /\ maxRetries = 3
    /\ result.status = "resolved"
    /\ fails = 3
    /\ execs = 4

\* C3: for getRepoMetadata, getRepoBranches and getRepoTags of every
\* adapter, a vendor failure carrying HTTP status 404 surfaces as NotFound,
\* 401 or 403 as Auth, 429 as RateLimit and any 5xx as Network.
C3_Kind(s) ==
    CASE s = 404 -> "NotFound"
      [] s \in {401, 403} -> "Auth"
      [] s = 429 -> "RateLimit"
      [] OTHER -> "Network"

C3_StatusMapping ==
    (Rejected /\ call.op \in RepoOps
        /\ (vendorErr.status \in {401, 403, 404, 429} \/ vendorErr.status >= 500))
        => result.err.cls = C3_Kind(vendorErr.status)

\* GitHub getRepoBranches rejects with RateLimit after the vendor threw 429
C3_Witness ==
    /\ Rejected
    /\ provider.type = "github"
    /\ call.op = "getRepoBranches"
    /\ vendorErr.status = 429
    /\ result.err.cls = "RateLimit"

\* C4: every rejection of an adapter operation, whatever its cause, is an
\* instance of one of the five domain error kinds, never a raw vendor
\* exception or an untyped Error.
C4_TypedRejection ==
    Rejected => result.err.cls \in DomainKinds

\* Bitbucket getRepoTags rejects after the vendor threw an error that
\* carries no status
C4_Witness ==
    /\ Rejected
    /\ provider.type = "bitbucket"
    /\ call.op = "getRepoTags"
    /\ vendorErr.cls = "Raw"
    /\ vendorErr.status = Absent
    /\ vendorErr.resp = Absent

\* C5: for every repository identifier that lacks the separator,
\* getRepoMetadata of every adapter rejects with a Configuration error.
C5_MalformedIsConfiguration ==
    (Settled /\ call.op = "getRepoMetadata" /\ LacksSeparator(call.name))
        => result.status = "rejected" /\ result.err.cls = "Configuration"

\* C6: for every repository identifier that lacks the separator,
\* getRepoMetadata of every adapter fails without any vendor call: the call
\* count is 0 when the caller receives the error.
C6_NoVendorCall ==
    (call.op = "getRepoMetadata" /\ LacksSeparator(call.name))
        => /\ vendorCalls = 0
           /\ Settled => result.status = "rejected"

\* C7: a failure that is a caller or setup mistake (malformed repository
\* identifier, unsupported auth kind, missing Bitbucket Cloud workspace) is
\* never retried: the body is executed exactly once and no backoff wait
\* occurs before the caller receives the error.
C7_SetupMistake ==
    \/ result.err.msg \in {"invalid-name", "workspace"}
    \/ result.err.msg = "init" /\ ~AuthKindSupported

C7_SetupMistakeNotRetried ==
    (Rejected /\ C7_SetupMistake) => execs = 1 /\ waits = 0

\* C8: on Bitbucket Cloud with no workspace configured getUserRepos always
\* rejects with a Configuration error whose message refers to workspace
\* discovery; it never resolves and never issues a listing call.
C8_CloudWithoutWorkspace ==
    (provider.type = "bitbucket" /\ provider.cloud /\ ~provider.workspace
        /\ call.op = "getUserRepos")
        => /\ vendorCalls = 0
           /\ Settled => /\ result.status = "rejected"
                         /\ result.err.cls = "Configuration"
                         /\ result.err.msg = "workspace"

\* C9: createProviderWithOrganizations never rejects because
\* getOrganizations() failed: it resolves with the provider and an empty
\* organization list and reports the failure on the warning channel.
C9_DiscoveryFailureTolerated ==
    fac.mode = "withOrgs"
        => /\ fac.pc = "rejected" => call = NoCall /\ provider = NoProvider
           /\ (fac.pc = "returned" /\ result.status = "rejected")
                => /\ fac.orgs = <<>>
                   /\ fac.warned
                   /\ provider.type \in Types

\* the factory has returned after getOrganizations() rejected
C9_Witness ==
    /\ fac.mode = "withOrgs"
    /\ fac.pc = "returned"
    /\ result.status = "rejected"
    /\ call.op = "getOrganizations"
    /\ fac.orgs = <<>>

\* C10: in a failure-free run against a platform holding at least maxItems
\* items, the number of page fetches is the smallest k such that the first
\* k pages hold at least maxItems items, and exactly maxItems items are
\* returned, for every adapter and every maxItems >= 1.
C10_Pages(n, size) == (n + size - 1) \div size

C10_FetchCount ==
    (Resolved /\ call.op \in PagedOps /\ FailureFree
        /\ call.maxItems >= 1 /\ platform >= call.maxItems)
        => /\ Len(result.value) = call.maxItems
           /\ fetches = C10_Pages(call.maxItems, PerPage)

\* C11: during accumulation in any paginated operation called with
\* maxItems = N, the accumulator's length never exceeds N in any reachable
\* state (the cap is tested before each item is appended).
C11_AccWithinCap ==
    (call.op \in PagedOps /\ call.maxItems >= 0)
        => /\ Len(acc) <= call.maxItems
           /\ Len(result.value) <= call.maxItems

\* C12: every page request of every paginated operation carries the page
\* size min(requested perPage, 100), the platform default when perPage is
\* not given, for every perPage value the caller can pass.
C12_PageSize(pp, default) ==
    IF pp = Undefined THEN default ELSE Min(pp, PlatformMax)

C12_RequestedPageSize ==
    (pc = "call" /\ call.op \in PagedOps)
        => PerPage = C12_PageSize(call.perPage, DefaultPerPage(provider.type))

\* C13: when withRetry gives up, because retries are exhausted or because
\* shouldRetry returned false, it rejects with the very error thrown by the
\* last execution of the operation, unchanged and not re-wrapped.
C13_SameError ==
    (pc = "done" /\ call.op = "withRetry" /\ result.status = "rejected"
        /\ execs >= 1)
        => /\ result.err = err
           /\ result.err \in FnErrors

\* retries exhausted: the third execution threw 503 under maxRetries = 2
C13_Witness ==
    /\ pc = "done"
    /\ call.op = "withRetry"
    /\ result.status = "rejected"
    /\ maxRetries = 2
    /\ execs = 3
    /\ waits = 2
    /\ err.status = 503
    /\ result.err = err

\* C14: the default shouldRetry returns true exactly for errors whose
\* status is >= 500 or equal to 429 and for errors that carry no status
\* field; it returns false for every other status-bearing error.  Read off
\* the loop: while retries remain, withRetry sleeps after an error exactly
\* when the predicate is true and rejects at once exactly when it is false.
C14_Retried(e) == e.status = Absent \/ e.status >= 500 \/ e.status = 429

C14_DefaultShouldRetry ==
    call.op = "withRetry"
        => /\ pc = "sleep" => C14_Retried(err)
           /\ (pc = "done" /\ result.status = "rejected" /\ execs >= 1
                  /\ Top(attempt) < maxRetries)
                => ~C14_Retried(result.err)
           /\ (pc = "done" /\ result.status = "rejected" /\ execs >= 1
                  /\ C14_Retried(result.err))
                => Top(attempt) = maxRetries

\* a 429 is followed by a backoff sleep, retries remaining
C14_Witness ==
    /\ call.op = "withRetry"
    /\ pc = "sleep"
    /\ err.status = 429
    /\ Top(attempt) < maxRetries

\* C15: for every adapter operation, a vendor call that keeps failing with
\* a retryable error is attempted at most maxRetries + 1 (4 with the default
\* policy) times in total before the caller receives the failure; an
\* operation delegating to another never multiplies the attempt budget.
\* (an operation that needs one vendor call per execution, a single
\* lookup or the listing of an empty collection, issues one call per attempt)
C15_OneCallPerExecution == call.op = "getRepoMetadata" \/ platform = 0

C15_AttemptBudget ==
    call.op \in Ops
        => /\ execs <= maxRetries + 1
           /\ C15_OneCallPerExecution => vendorCalls <= maxRetries + 1

\* C16: for getUserRepos, getOrganizations and getOrganizationRepos of
\* every adapter, in every deployment mode, a vendor failure with status 401
\* or 403 surfaces as Auth, 404 as NotFound and 429 as RateLimit.
C16_ListOps == {"getUserRepos", "getOrganizations", "getOrganizationRepos"}

C16_ListStatusMapping ==
    (Rejected /\ call.op \in C16_ListOps
        /\ vendorErr.status \in {401, 403, 404, 429})
        => result.err.cls = C3_Kind(vendorErr.status)

\* C17: each of the three provider error mappers recognises an HTTP status
\* carried directly on the error, under error.response.status or under
\* error.cause.status, and maps it by the uniform status table (401/403
\* Auth, 404 NotFound, 429 RateLimit, other Network).
\* the status an error carries, looked up in the order direct, response,
\* cause
C17_StatusOf(e) ==
    IF e.status # Absent THEN e.status
    ELSE IF e.resp \notin {Absent, NoStatus} THEN e.resp
    ELSE IF e.cause \notin {Absent, NoStatus} THEN e.cause
    ELSE Absent

C17_AnyLocation ==
    (Rejected /\ call.op \in RepoOps /\ C17_StatusOf(vendorErr) # Absent)
        => result.err.cls = C3_Kind(C17_StatusOf(vendorErr))

\* C18: when an error carries status information in more than one
\* location, each mapper decides by the first location that yields a
\* status, in the order direct status, response status, cause status; a
\* location that is present but holds no status does not end the search.
C18_Present(e) ==
    Cardinality({ l \in {"status", "resp", "cause"} :
                    CASE l = "status" -> e.status # Absent
                      [] l = "resp" -> e.resp # Absent
                      [] OTHER -> e.cause # Absent })

C18_FirstStatusWins ==
    (pc = "done" /\ call.op = "mapError" /\ C18_Present(vendorErr) >= 2
        /\ C17_StatusOf(vendorErr) # Absent)
        => err.cls = C3_Kind(C17_StatusOf(vendorErr))

\* C19: for an error that carries no status in any location, each mapper
\* falls back to message substrings: "Unauthorized"/"401" maps to Auth,
\* "Not Found"/"404" to NotFound, "Rate limit"/"429" to RateLimit, and
\* every other error to Network.
C19_KindByMessage(m) ==
    CASE m = "Unauthorized" -> "Auth"
      [] m = "Not Found" -> "NotFound"
      [] m = "Rate limit" -> "RateLimit"
      [] OTHER -> "Network"

C19_MessageFallback ==
    (pc = "done" /\ call.op = "mapError"
        /\ vendorErr.status = Absent
        /\ vendorErr.resp \in {Absent, NoStatus}
        /\ vendorErr.cause \in {Absent, NoStatus})
        => err.cls = C19_KindByMessage(vendorErr.msg)

\* C20: for every adapter, an auth configuration whose kind is not in that
\* platform's supported set makes client construction fail with a
\* Configuration error, and that is the error the calling operation
\* surfaces.
\* the supported sets: GitHubAuth, GitLabAuth and BitbucketAuth
C20_Supported(type, kind) ==
    CASE type = "github" -> kind \in {"token", "app", "oauth"}
      [] type = "gitlab" -> kind \in {"token", "oauth", "job"}
      [] OTHER -> kind \in {"basic", "oauth"}

\* calls that get as far as constructing the client: the repository
\* operations on a well-formed identifier
C20_ReachesClient == call.op \in RepoOps /\ call.name = WellFormed

C20_UnsupportedAuthIsConfiguration ==
    (Settled /\ C20_ReachesClient
        /\ ~C20_Supported(provider.type, provider.authKind))
        => /\ result.status = "rejected"
           /\ result.err.cls = "Configuration"

\* C21: for each adapter instance the vendor client is constructed exactly
\* once, on first use, and that same client object is used by every later
\* operation, for every interleaving of operations including two
\* operations that race to create it.
C21_ConstructedOnce ==
    pc = "race"
        => /\ builds <= 1
           /\ \A p, q \in Procs :
                (inv[p].client # 0 /\ inv[q].client # 0)
                    => inv[p].client = inv[q].client

\* C22: the memoized client handle is assigned only after the client is
\* fully constructed: in every reachable state, including while two
\* operations are both inside client(), the handle is either unset or
\* refers to a completely configured client, and every caller of client()
\* receives a completely configured client.
C22_HandleComplete ==
    pc = "race"
        => /\ memo \in {"unset", "ready"}
           /\ \A p \in Procs :
                /\ inv[p].pc \in {"call", "done"} => inv[p].handle = "ready"
                /\ inv[p].pc = "import" => inv[p].handle = "none"

\* one operation works with the client it constructed while the other,
\* which entered client() before the handle was set, still awaits the import
C22_Witness ==
    /\ pc = "race"
    /\ inv[1].pc = "call"
    /\ inv[1].handle = "ready"
    /\ inv[2].pc = "import"
    /\ memo = "ready"

\* C23: within one attempt of a paginated operation, pages are requested
\* one at a time and in order starting from page 1: page N+1 is requested
\* only after page N's response has been received and consumed, and no page
\* is skipped or requested twice.  While a request is outstanding it is the
\* N-th request of the attempt, it asks for page N, and the accumulator
\* holds the items of pages 1..N-1.
C23_SequentialPages ==
    (pc = "call" /\ call.op \in PagedOps)
        => /\ fetches >= 1
           /\ page = fetches
           /\ acc = [i \in 1..Min((page - 1) * PerPage, platform) |-> i]

\* the third page is outstanding, two pages consumed
C23_Witness ==
    /\ pc = "call"
    /\ call.op \in PagedOps
    /\ page = 3
    /\ fetches = 3
    /\ Len(acc) = 2 * PerPage

\* C24: within one withRetry call the executions of the operation are
\* strictly sequential: a new execution starts only after the previous one
\* has failed and the backoff wait has elapsed, exactly one wait separates
\* two consecutive executions, and no wait follows the final execution.
C24_SequentialExecutions ==
    (call.op = "withRetry" /\ execs >= 1)
        => /\ pc \in {"body", "caught"}
                => waits = execs - 1 /\ fails = execs - 1
           /\ pc = "sleep" => waits = execs - 1 /\ fails = execs
           /\ pc = "loop" => waits = execs /\ fails = execs
           /\ pc = "done"
                => /\ waits = execs - 1
                   /\ fails = IF result.status = "resolved" THEN execs - 1
                              ELSE execs

\* three executions separated by two waits, none after the last
C24_Witness ==
    /\ call.op = "withRetry"
    /\ pc = "done"
    /\ result.status = "rejected"
    /\ execs = 3
    /\ fails = 3
    /\ waits = 2

\* C25: concurrent invocations of operations on the same adapter instance
\* do not interfere: each invocation builds its result in its own
\* accumulator and page counter, so under every interleaving each
\* invocation returns exactly the list it would return if it ran alone.
C25_Alone(c, total) ==
    [i \in 1..(IF EffectiveMaxItems(c.maxItems) = Infinity THEN total
               ELSE Min(c.maxItems, total)) |-> i]

C25_NoInterference ==
    pc = "race"
        => \A p \in Procs :
             /\ inv[p].pc = "done"
                  => inv[p].value = C25_Alone(inv[p].call, inv[p].total)
             /\ inv[p].pc = "call"
                  => inv[p].acc = [i \in 1..Len(inv[p].acc) |-> i]

\* one invocation has returned its list while the other is between two of
\* its pages
C25_Witness ==
    /\ pc = "race"
    /\ inv[1].pc = "done"
    /\ Len(inv[1].value) = 2
    /\ inv[2].pc = "call"
    /\ inv[2].page = 2
    /\ Len(inv[2].acc) = 1
    /\ inv[2].total = 3

\* C26: the wait before the retry that follows failed attempt number a is
\* min(baseDelay * 2^a, maxDelay) when jitter is disabled and that value
\* multiplied by a factor in [0.5, 1.0] when jitter is enabled; hence no
\* wait exceeds maxDelay and, without jitter, the waits never decrease from
\* one retry to the next.
C26_Nominal(a, b) ==
    IF b.baseDelayMs * (2 ^ a) <= b.maxDelayMs
    THEN b.baseDelayMs * (2 ^ a) ELSE b.maxDelayMs

C26_BackoffDelay ==
    (call.op = "withRetry" /\ pc = "sleep")
        => LET a == Top(attempt)
               d == C26_Nominal(a, backoff)
           IN  /\ ~backoff.jitter => backoff.delay = d
               /\ backoff.jitter
                    => 2 * backoff.delay >= d /\ backoff.delay <= d
               /\ backoff.delay <= backoff.maxDelayMs
               /\ (~backoff.jitter /\ a >= 1)
                    => backoff.delay >= C26_Nominal(a - 1, backoff)

\* the third wait of a policy without jitter is cut to maxDelay
C26_Witness ==
    /\ call.op = "withRetry"
    /\ pc = "sleep"
    /\ ~backoff.jitter
    /\ Top(attempt) = 2
    /\ backoff.baseDelayMs * 4 > backoff.maxDelayMs
    /\ backoff.delay = backoff.maxDelayMs
    /\ waits = 2

\* C27: on self-hosted Bitbucket a failure of the projects listing never
\* makes getOrganizations reject: the call resolves with the organizations
\* accumulated so far (the empty list when the first page fails), a warning
\* is logged, and the failed listing call is not retried.
C27_ProjectsFailureTolerated ==
    (provider.type = "bitbucket" /\ ~provider.cloud
        /\ call.op = "getOrganizations" /\ vendorErr.cls = "Raw")
        => /\ pc \in {"done", "idle"}
           /\ result.status = "resolved"
           /\ result.value = [i \in 1..((fetches - 1) * PerPage) |-> i]
           /\ warned
           /\ vendorCalls = fetches

\* the second page of projects failed: one organization is returned
C27_Witness ==
    /\ provider.type = "bitbucket"
    /\ ~provider.cloud
    /\ call.op = "getOrganizations"
    /\ vendorErr.status = 503
    /\ pc = "done"
    /\ result.status = "resolved"
    /\ result.value = <<1>>
    /\ fetches = 2
    /\ warned

C29_SearchPassthrough ==
    (pc = "search" /\ inv[1].search)
        => /\ inv[1].pc = "call" => inv[1].query
           /\ inv[1].pc = "done"
                => inv[1].value =
                     UpToCap(inv[1].fetched,
                             EffectiveMaxItems(inv[1].call.maxItems))

\* C29, as the adapters behave: GitLab and Bitbucket pass the term to the
\* list endpoint and append every returned item up to the cap; GitHub's
\* getUserRepos sends no term and keeps, of the returned items, those
\* whose name or full name contains the term, counting the kept items
\* against the cap.  Either way the result is the matching repositories in
\* listing order, up to the cap.
C29_KeptOf(i) ==
    IF provider.type = "github" /\ i.call.op = "getUserRepos"
    THEN SelectSeq(i.fetched, Matches)
    ELSE i.fetched

C29_SearchByAdapter ==
    (pc = "search" /\ inv[1].search)
        => /\ inv[1].pc = "call"
                => inv[1].query = ~(provider.type = "github"
                                      /\ inv[1].call.op = "getUserRepos")
           /\ inv[1].pc = "done"
                => /\ inv[1].value =
                        UpToCap(C29_KeptOf(inv[1]),
                                EffectiveMaxItems(inv[1].call.maxItems))
                   /\ inv[1].value =
                        UpToCap(Matching(inv[1].total),
                                EffectiveMaxItems(inv[1].call.maxItems))

\* GitHub getUserRepos with a term has dropped returned items
C29_Witness ==
    /\ pc = "search"
    /\ provider.type = "github"
    /\ inv[1].search
    /\ inv[1].pc = "done"
    /\ inv[1].call.maxItems = 2
    /\ inv[1].fetched = <<1, 2, 3, 4>>
    /\ inv[1].value = <<1, 3>>

\* C30: createProvider returns an adapter of the class selected solely by
\* config.type (github, gitlab or bitbucket), constructed with the supplied
\* auth and common options (read as the adapters read them, a falsy option
\* counting as not given), and rejects with a ConfigurationError for every
\* other type value.
C30_Common == {"baseUrl", "userAgent", "requestTimeoutMs"}

C30_WitnessRejected ==
    /\ fac.pc = "rejected"
    /\ fac.config.type = "svn"
    /\ fac.err.cls = "Configuration"

\* C31: if resolving the adapter for the selected platform fails because
\* its optional peer component is absent, createProvider rejects with a
\* Configuration error that names the missing component; every failure to
\* resolve the adapter for that reason is reported this way and never as a
\* generic or raw failure.
C31_MissingComponentReported ==
    (fac.config # NoConfig /\ fac.pc = "rejected"
        /\ vendorErr.msg \in MissingModuleCodes)
        => /\ fac.err.cls = "Configuration"
           /\ fac.err.msg = "module-missing"

\* C32: getRepoMetadata rejects every identifier that is not exactly one
\* owner part and one repository name around the separator (the empty
\* string, a name with no separator, a path with extra segments) and never
\* resolves with the metadata of a repository derived from part of the
\* input.
C32_InvalidRejected ==
    (Settled /\ call.op = "getRepoMetadata"
        /\ provider.type \in {"github", "bitbucket"}
        /\ call.name # WellFormed)
        => result.status = "rejected"

\* C33: every domain error that an adapter operation surfaces after a
\* vendor call failed carries, as its cause, the original error object
\* raised by that vendor call, not a replacement error and not a wrapper
\* around another domain error.
C33_CauseIsVendorError ==
    (Rejected /\ vendorErr.cls = "Raw")
        => /\ result.err.cls \in DomainKinds
           /\ result.err.cause = CauseOf(vendorErr)

\* C33 outside the self-hosted Bitbucket repository listing of an
\* organization: the cause is the vendor error
C33_ElsewhereCauseKept ==
    (Rejected /\ vendorErr.cls = "Raw"
        /\ ~(provider.type = "bitbucket" /\ ~provider.cloud
               /\ call.op = "getOrganizationRepos"))
        => /\ result.err.cls \in DomainKinds
           /\ result.err.cause = CauseOf(vendorErr)

\* C34: when the vendor call inside an adapter operation fails with a 4xx
\* status other than 429, the operation is not retried: the vendor call is
\* made exactly once and the mapped error reaches the caller without any
\* backoff wait.
C34_ClientErrorNotRetried ==
    (call.op \in Ops /\ fails = 1 /\ vendorCalls = 1
        /\ vendorErr.status \in {400, 401, 403, 404})
        => /\ pc # "sleep"
           /\ waits = 0
           /\ execs = 1

\* C35: if a page fetch fails part-way through a paginated operation and a
\* later retry attempt succeeds, the returned list is exactly what a
\* failure-free run would return: the retry starts again from page 1 with
\* an empty accumulator, so no item appears twice and nothing collected by
\* a failed attempt is kept.
C35_RetriedResult ==
    (Resolved /\ call.op \in PagedOps /\ fails >= 1 /\ ~warned)
        => result.value =
             [i \in 1..(IF Cap = Infinity THEN platform
                        ELSE Min(Cap, platform)) |-> i]

\* Bitbucket: page 1 was read, page 2 failed, the retry read both pages
C35_Witness ==
    /\ Resolved
    /\ call.op \in PagedOps
    /\ provider.type = "bitbucket"
    /\ provider.cloud
    /\ call.op = "getOrganizationRepos"
    /\ fails = 1
    /\ ~warned
    /\ vendorCalls = 4
    /\ fetches = 2
    /\ result.value = <<1, 2>>

\* C36: in a failure-free run with no search term, the list returned by a
\* paginated operation is exactly the first min(maxItems, total) items of
\* the platform's listing (all of them when maxItems is not given), in the
\* platform's order: none is skipped, reordered or duplicated.
C36_OrderedPrefix ==
    (Resolved /\ call.op \in PagedOps /\ FailureFree)
        => result.value =
             [i \in 1..(IF call.maxItems = Undefined THEN platform
                        ELSE Min(call.maxItems, platform)) |-> i]

\* C36 for every maxItems but 0
C36_OrderedPrefixOfPositive ==
    (Resolved /\ call.op \in PagedOps /\ FailureFree /\ call.maxItems # 0)
        => result.value =
             [i \in 1..(IF call.maxItems = Undefined THEN platform
                        ELSE Min(call.maxItems, platform)) |-> i]

\* C37: against a platform whose listing is finite and with no failures,
\* every paginated operation terminates for every maxItems and perPage,
\* after at most ceil(total / page size) + 1 page fetches.
C37_FetchBound ==
    (call.op \in PagedOps /\ FailureFree)
        => fetches <= C10_Pages(platform, PerPage) + 1

\* every page received is followed by the request for the next page or by
\* the end of the body
C37_PageStep ==
    (pc = "call" /\ call.op \in PagedOps)
        => \/ pc' = "call" /\ page' = page + 1 /\ fetches' = fetches + 1
           \/ pc' \in {"done", "caught"}

C37_Terminates ==
    /\ []C37_FetchBound
    /\ [][C37_PageStep]_vars

\* under fair scheduling every paginated operation settles
C37_EventuallySettles ==
    (call.op \in PagedOps /\ pc = "loop") ~> (pc = "done")

\* GitLab has read two full pages and the empty page after them
C37_Witness ==
    /\ Resolved
    /\ FailureFree
    /\ provider.type = "gitlab"
    /\ call.op \in PagedOps
    /\ platform = 4
    /\ PerPage = 2
    /\ fetches = 3
    /\ Len(result.value) = 4

\* C38: for every retry policy the caller can pass (every value of
\* maxRetries, 0 and negative values included), withRetry executes the
\* operation at least once, and whenever it rejects it rejects with an
\* error that the operation actually threw.
C38_ExecutedAndOwnError ==
    (pc = "done" /\ call.op = "withRetry")
        => /\ execs >= 1
           /\ result.status = "rejected" => result.err \in FnErrors

\* C38 for maxRetries >= 0
C38_NonNegativePolicy ==
    (pc = "done" /\ call.op = "withRetry" /\ maxRetries >= 0)
        => /\ execs >= 1
           /\ result.status = "rejected" => result.err \in FnErrors

\* C39: if constructing the vendor client fails, the memoized handle stays
\* unset, so the next call to client(), the next retry attempt of the same
\* operation included, attempts construction again; a construction failure
\* is never cached and never leaves a handle behind.
C39_FailureNotCached ==
    /\ (err.msg = "init" \/ result.err.msg = "init")
            => memo = "unset" /\ builds = 0
    /\ (pc = "body" /\ call.op \in Ops /\ memo = "unset")
            => builds = 0
    /\ (pc = "import") => memo = "unset"

C39_RetryConstructs ==
    (pc = "body" /\ call.op \in Ops /\ fails >= 1 /\ builds = 0
        /\ ~SplitFails /\ ~OnCloudUserRepos)
        => pc' = "import"

C39_ConstructedAgain ==
    /\ []C39_FailureNotCached
    /\ [][C39_RetryConstructs]_vars

\* the retry after a failed construction has constructed the client
C39_Witness ==
    /\ pc = "call"
    /\ call.op \in Ops
    /\ fails = 1
    /\ execs = 2
    /\ vendorCalls = 1
    /\ memo = "ready"
    /\ builds = 1

C40_NetworkPreserved ==
    (pc = "done" /\ call.op = "remapError" /\ vendorErr.cls = "Network"
        /\ provider.type \in {"github", "bitbucket"})
        => err.cls = "Network"

====
